---- MODULE Spec2Model ----
(***************************************************************************)
(* The filter pipeline of btc-pipeline.py: a Context is threaded through   *)
(* ValidationFilter, AuthFilter, TransformationFilter, FeeFilter and       *)
(* StorageFilter by Pipeline.run.  Several runs share one JSON file.       *)
(*                                                                         *)
(* Representation of Python values:                                        *)
(*   None            [py |-> "None"]                                       *)
(*   str             [py |-> "str", v |-> <TLA+ string or character seq>]  *)
(*   int             [py |-> "int", v |-> n]                               *)
(*   float (BTC)     [py |-> "float", v |-> n], n counted in 1/1000 BTC    *)
(*   dict (profile)  [py |-> "dict", v |-> <function>]                     *)
(* Money is counted in integer cents; rates in thousandths.                *)
(***************************************************************************)
EXTENDS Integers, Sequences, FiniteSets, TLC

\* ------------------------------------------------------------------ bounds

\* number of pipeline runs a behaviour performs
NumRuns == 2

Runs == 1..NumRuns

\* ----------------------------------------------------------- Python values

None == [py |-> "None"]
Str(s) == [py |-> "str", v |-> s]
PyInt(n) == [py |-> "int", v |-> n]
Float(n) == [py |-> "float", v |-> n]
Dict(f) == [py |-> "dict", v |-> f]

\* Python truthiness, as `not x` evaluates it
Falsy(x) ==
    \/ x = None
    \/ (x.py = "str" /\ x.v = "")
    \/ (x.py = "int" /\ x.v = 0)
    \/ (x.py = "dict" /\ DOMAIN x.v = {})

\* isinstance(x, str)
IsStr(x) == x.py = "str"

\* dict operations on a function whose domain is the key set
EmptyDict == [k \in {} |-> None]
SetItem(d, k, v) == [x \in (DOMAIN d) \cup {k} |-> IF x = k THEN v ELSE d[x]]
Get(d, k) == IF k \in DOMAIN d THEN d[k] ELSE None

\* datetime.utcnow().isoformat(): an opaque string no operation of the program reads
Timestamp == Str("utcnow")

\* ------------------------------------------------------------- Transaction

\* the value stored under context["transaction"]: a reference to the run's
\* Transaction object, which ValidationFilter mutates in place
TxRef == [py |-> "Transaction"]

Transaction(u, a, c) == [user_id |-> u, btc_amount |-> a, base_currency |-> c]

\* dataclasses.asdict(tx): a copy of the three fields
asdict(t) ==
    [user_id |-> t.user_id, btc_amount |-> t.btc_amount, base_currency |-> t.base_currency]

\* ------------------------------------------------------------ str methods

Whitespace == {" ", "\t"}

UpperChar(c) ==
    CASE c = "u" -> "U" [] c = "s" -> "S" [] c = "d" -> "D"
      [] c = "e" -> "E" [] c = "r" -> "R" [] c = "g" -> "G"
      [] c = "b" -> "B" [] c = "p" -> "P" [] c = "j" -> "J"
      [] c = "y" -> "Y" [] OTHER -> c

\* str.upper() on a sequence of characters
upper(s) == [i \in 1..Len(s) |-> UpperChar(s[i])]

RECURSIVE lstrip(_)
lstrip(s) == IF s # <<>> /\ Head(s) \in Whitespace THEN lstrip(Tail(s)) ELSE s

\* a trim of the right end that takes the last character whatever it is
rstrip_last_char(s) == IF s # <<>> THEN SubSeq(s, 1, Len(s) - 1) ELSE s

RECURSIVE rstrip(_)
rstrip(s) ==
    IF s # <<>> /\ s[Len(s)] \in Whitespace THEN rstrip(SubSeq(s, 1, Len(s) - 1)) ELSE s

\* str.strip(): leading and trailing whitespace removed, inner whitespace kept
strip(s) == rstrip(lstrip(s))

\* ------------------------------------------------------------------ errors

NoError == [exc |-> "none", msg |-> ""]
MissingTransaction == [exc |-> "ValueError", msg |-> "Missing transaction in context"]
InvalidUser == [exc |-> "ValueError", msg |-> "Invalid user_id"]
InvalidAmount == [exc |-> "ValueError", msg |-> "btc_amount must be > 0"]
UnsupportedCurrency == [exc |-> "ValueError", msg |-> "Unsupported base currency"]
NotAuthenticated == [exc |-> "PermissionError", msg |-> "User not authenticated"]
FxUnsupportedCurrency == [exc |-> "ValueError", msg |-> "Unsupported currency"]
FeeUnsupportedCurrency == [exc |-> "ValueError", msg |-> "Unsupported currency for fee"]
ReadFailure == [exc |-> "OSError", msg |-> "open for reading"]
OpenFailure == [exc |-> "OSError", msg |-> "open for writing"]
WriteFailure == [exc |-> "OSError", msg |-> "write"]
NotAList == [exc |-> "AttributeError", msg |-> "append"]

\* what a stage's process() does: returns (raised = NoError) or raises, with the
\* context and the Transaction as the call left them
Returned(context, t) == [raised |-> NoError, context |-> context, transaction |-> t]
Raised(e, context, t) == [raised |-> e, context |-> context, transaction |-> t]

\* ------------------------------------------------------- ValidationFilter

USD == <<"U", "S", "D">>
EUR == <<"E", "U", "R">>
GBP == <<"G", "B", "P">>

\* a SUPPORTED that lets through a code the FxService has no rate for
SUPPORTED_with_JPY == {USD, EUR, GBP, <<"J", "P", "Y">>}

SUPPORTED == {USD, EUR, GBP}

\* line 29: the currency code as Validation rewrites it
Normalized(c) == Str(strip(upper(c.v)))

\* ValidationFilter.process without the check of line 27
ValidationFilter_process_no_amount_check(context, t) ==
    IF t = None THEN Raised(MissingTransaction, context, t)
    ELSE IF Falsy(t.user_id) \/ ~IsStr(t.user_id) THEN Raised(InvalidUser, context, t)
    ELSE LET t2 == [t EXCEPT !.base_currency = Normalized(t.base_currency)]
         IN  IF t2.base_currency.v \notin SUPPORTED
             THEN Raised(UnsupportedCurrency, context, t2)
             ELSE Returned(SetItem(context, "validated_at", Timestamp), t2)

\* ValidationFilter.process with the checks of lines 25 and 27 in the other order
ValidationFilter_process_amount_first(context, t) ==
    IF t = None THEN Raised(MissingTransaction, context, t)
    ELSE IF t.btc_amount = None \/ t.btc_amount.v <= 0 THEN Raised(InvalidAmount, context, t)
    ELSE IF Falsy(t.user_id) \/ ~IsStr(t.user_id) THEN Raised(InvalidUser, context, t)
    ELSE LET t2 == [t EXCEPT !.base_currency = Normalized(t.base_currency)]
         IN  IF t2.base_currency.v \notin SUPPORTED
             THEN Raised(UnsupportedCurrency, context, t2)
             ELSE Returned(SetItem(context, "validated_at", Timestamp), t2)

\* t is context.get("transaction"): the run's Transaction, or None
ValidationFilter_process(context, t) ==
    IF t = None THEN Raised(MissingTransaction, context, t)
    ELSE IF Falsy(t.user_id) \/ ~IsStr(t.user_id) THEN Raised(InvalidUser, context, t)
    ELSE IF t.btc_amount = None \/ t.btc_amount.v <= 0 THEN Raised(InvalidAmount, context, t)
    ELSE LET t2 == [t EXCEPT !.base_currency = Normalized(t.base_currency)]
         IN  IF t2.base_currency.v \notin SUPPORTED
             THEN Raised(UnsupportedCurrency, context, t2)
             ELSE Returned(SetItem(context, "validated_at", Timestamp), t2)

\* ------------------------------------------------------------- AuthFilter

Alice == Dict([name |-> "Alice", kyc_level |-> "basic"])
Bob == Dict([name |-> "Bob", kyc_level |-> "plus"])

\* the directory of the example run
USERS == ("u123" :> Alice) @@ ("u456" :> Bob)

\* a directory is any mapping from user_id to a profile mapping; the second one
\* holds a user whose profile has no fields
Directories == {USERS, USERS @@ ("u789" :> Dict(EmptyDict))}

\* users_db.get(user_id)
Lookup(db, uid) == IF IsStr(uid) /\ uid.v \in DOMAIN db THEN db[uid.v] ELSE None

\* AuthFilter.process without the check of lines 45-46
AuthFilter_process_no_check(db, context, t) ==
    Returned(SetItem(SetItem(context, "user", Lookup(db, t.user_id)),
                     "authenticated_at", Timestamp), t)

AuthFilter_process(db, context, t) ==
    LET user == Lookup(db, t.user_id)
    IN  IF Falsy(user) THEN Raised(NotAuthenticated, context, t)
        ELSE Returned(SetItem(SetItem(context, "user", user),
                              "authenticated_at", Timestamp), t)

\* --------------------------------------------------------------- FxService

\* btc_amount is counted in 1/BtcUnit BTC
BtcUnit == 1000

\* rates are counted in 1/RateUnit: the rate 1.0 is RateUnit
RateUnit == 1000

\* USD per BTC
btc_usd == 68000

\* 0.92 and 0.78, in thousandths
usd_to_eur == 920
usd_to_gbp == 780

\* an FxService: its three attributes
FxService(b, e, g) == [btc_usd |-> b, usd_to_eur |-> e, usd_to_gbp |-> g]

\* the FxService of the example (and of the default arguments)
ExampleFx == FxService(btc_usd, usd_to_eur, usd_to_gbp)

\* round(n / d, 0) as Python rounds: to nearest, ties to even
RoundHalfEven(n, d) ==
    LET q == n \div d
        m == n % d
    IN  IF 2 * m < d THEN q
        ELSE IF 2 * m > d THEN q + 1
        ELSE IF q % 2 = 0 THEN q ELSE q + 1

\* round(x, 2) in cents, for x = num / den with den a multiple of 100
round2(num, den) == RoundHalfEven(num, den \div 100)

\* FxService.btc_to_currency: the amount is num / (BtcUnit * RateUnit) units of
\* the currency, fx the rate applied; supported = FALSE is the ValueError of line 70
btc_to_currency(self, btc_amount, currency) ==
    LET usd_value == btc_amount.v * self.btc_usd
    IN  IF currency.v = USD
        THEN [supported |-> TRUE, num |-> usd_value * RateUnit, fx |-> RateUnit]
        ELSE IF currency.v = EUR
        THEN [supported |-> TRUE, num |-> usd_value * self.usd_to_eur,
              fx |-> self.usd_to_eur]
        ELSE IF currency.v = GBP
        THEN [supported |-> TRUE, num |-> usd_value * self.usd_to_gbp,
              fx |-> self.usd_to_gbp]
        ELSE [supported |-> FALSE, num |-> 0, fx |-> 0]

\* --------------------------------------------------- TransformationFilter

\* TransformationFilter.process storing the converted amount in the Transaction
TransformationFilter_process_into_tx(self_fx, context, t) ==
    LET r == btc_to_currency(self_fx, t.btc_amount, t.base_currency)
        fiat == round2(r.num, BtcUnit * RateUnit)
    IN  IF ~r.supported THEN Raised(FxUnsupportedCurrency, context, t)
        ELSE Returned(SetItem(SetItem(context, "fiat_amount", fiat),
                              "transformed_at", Timestamp),
                      [t EXCEPT !.btc_amount = Float(fiat)])

\* self_fx is the filter's FxService, self.fx
TransformationFilter_process(self_fx, context, t) ==
    LET r == btc_to_currency(self_fx, t.btc_amount, t.base_currency)
        fx_used == [btc_usd |-> self_fx.btc_usd, usd_to_eur |-> self_fx.usd_to_eur,
                    usd_to_gbp |-> self_fx.usd_to_gbp, applied |-> r.fx]
    IN  IF ~r.supported THEN Raised(FxUnsupportedCurrency, context, t)
        ELSE Returned(SetItem(SetItem(SetItem(context,
                        "fiat_amount", round2(r.num, BtcUnit * RateUnit)),
                        "fx_used", fx_used),
                        "transformed_at", Timestamp), t)

\* -------------------------------------------------------------- FeeFilter

\* 5.00 USD, in cents; FIXED_FEE_USD * rate is then in 1/(100 * RateUnit) units
FIXED_FEE_USD == 500

\* FeeFilter.process with the rates of lines 104 and 106 exchanged
FeeFilter_process_swapped_rates(self_fx, context, t) ==
    LET c == t.base_currency.v
        rate == IF c = USD THEN RateUnit
                ELSE IF c = EUR THEN self_fx.usd_to_gbp ELSE self_fx.usd_to_eur
        fee == round2(FIXED_FEE_USD * rate, RateUnit * 100)
    IN  IF c \notin {USD, EUR, GBP} THEN Raised(FeeUnsupportedCurrency, context, t)
        ELSE Returned(SetItem(SetItem(SetItem(context,
                        "fee", fee),
                        "total", round2(context["fiat_amount"] + fee, 100)),
                        "fee_calculated_at", Timestamp), t)

\* FeeFilter.process adding to total the fee as it was before line 108 rounded
\* it, cut to whole cents
FeeFilter_process_unrounded_fee(self_fx, context, t) ==
    LET c == t.base_currency.v
        rate == IF c = USD THEN RateUnit
                ELSE IF c = EUR THEN self_fx.usd_to_eur ELSE self_fx.usd_to_gbp
        fee == round2(FIXED_FEE_USD * rate, RateUnit * 100)
    IN  IF c \notin {USD, EUR, GBP} THEN Raised(FeeUnsupportedCurrency, context, t)
        ELSE Returned(SetItem(SetItem(SetItem(context,
                        "fee", fee),
                        "total", context["fiat_amount"]
                                 + (FIXED_FEE_USD * rate) \div RateUnit),
                        "fee_calculated_at", Timestamp), t)

\* FeeFilter.process adding the fee into fiat_amount instead of writing total
FeeFilter_process_overwriting(self_fx, context, t) ==
    LET c == t.base_currency.v
        rate == IF c = USD THEN RateUnit
                ELSE IF c = EUR THEN self_fx.usd_to_eur ELSE self_fx.usd_to_gbp
        fee == round2(FIXED_FEE_USD * rate, RateUnit * 100)
    IN  IF c \notin {USD, EUR, GBP} THEN Raised(FeeUnsupportedCurrency, context, t)
        ELSE Returned(SetItem(SetItem(SetItem(context,
                        "fee", fee),
                        "fiat_amount", round2(context["fiat_amount"] + fee, 100)),
                        "fee_calculated_at", Timestamp), t)

FeeFilter_process(self_fx, context, t) ==
    LET c == t.base_currency.v
        rate == IF c = USD THEN RateUnit
                ELSE IF c = EUR THEN self_fx.usd_to_eur ELSE self_fx.usd_to_gbp
        fee == round2(FIXED_FEE_USD * rate, RateUnit * 100)
    IN  IF c \notin {USD, EUR, GBP} THEN Raised(FeeUnsupportedCurrency, context, t)
        ELSE Returned(SetItem(SetItem(SetItem(context,
                        "fee", fee),
                        "total", round2(context["fiat_amount"] + fee, 100)),
                        "fee_calculated_at", Timestamp), t)

\* ---------------------------------------------------------- StorageFilter

\* the JSON file at self.path
\*   missing   no file
\*   empty     a file of zero bytes (as open(path, "w") leaves it)
\*   list      the complete JSON text of the array recs
\*   partial   a proper prefix of such a text, holding the first records of recs
\*   corrupt   some other text json.load cannot parse
\*   nonlist   JSON text of a value that is no array
File(kind, recs) == [kind |-> kind, recs |-> recs]

Missing == File("missing", <<>>)

\* lines 131-137 with the read left out: `existing` stays []
json_load_nothing(f) == <<>>

\* lines 131-137: `existing` once the file, if there is one, has been read: what
\* json.load yields, and [] when there is no file or its text does not parse
json_load(f) == IF f.kind = "list" THEN f.recs ELSE <<>>

\* the record of lines 122-130 with fiat_amount written under total as well
LedgerRecord_total_without_fee(context, t) ==
    [timestamp |-> Timestamp,
     transaction |-> asdict(t),
     user |-> Get(context, "user"),
     fiat_amount |-> Get(context, "fiat_amount"),
     fee |-> Get(context, "fee"),
     total |-> Get(context, "fiat_amount"),
     fx_used |-> Get(context, "fx_used")]

\* lines 122-130
LedgerRecord(context, t) ==
    [timestamp |-> Timestamp,
     transaction |-> asdict(t),
     user |-> Get(context, "user"),
     fiat_amount |-> Get(context, "fiat_amount"),
     fee |-> Get(context, "fee"),
     total |-> Get(context, "total"),
     fx_used |-> Get(context, "fx_used")]

storage_path == Str("transactions.json")

\* lines 141-142
Persisted(context) ==
    SetItem(SetItem(context, "persisted", TRUE), "storage_path", storage_path)

\* --------------------------------------------------------------- Pipeline

\* the stages of the example pipeline, in order
filters == <<"Validation", "Auth", "Transformation", "Fee", "Storage">>

\* a loop that steps over the filter after each one it calls
Pipeline_step_skipping(i, res) ==
    IF res.raised = NoError
    THEN [idx |-> i + 2, phase |-> "running", err |-> NoError]
    ELSE [idx |-> i, phase |-> "failed", err |-> res.raised]

\* a loop that catches what a filter raises and goes on
Pipeline_step_catching(i, res) ==
    [idx |-> i + 1, phase |-> "running", err |-> NoError]

\* one turn of the loop of Pipeline.run around the call of stage i: the
\* returned context is passed on to stage i + 1, an exception ends the run and
\* reaches the caller as raised
Pipeline_step(i, res) ==
    IF res.raised = NoError
    THEN [idx |-> i + 1, phase |-> "running", err |-> NoError]
    ELSE [idx |-> i, phase |-> "failed", err |-> res.raised]

\* a loop that stops one filter short
LoopDone_one_short(i) == i >= Len(filters)

\* the loop has run every filter
LoopDone(i) == i > Len(filters)

\* ------------------------------------------------------------------ inputs

UserIds == {Str("u123"), Str("u789"), Str("")}
Amounts == {Float(0), Float(10)}
Currencies == {Str(USD), Str(<<"e", "u", "r", " ">>), Str(<<"j", "p", "y">>)}

\* the Transactions a caller submits: the combinations above, and a user_id
\* that is no string, a missing and a negative amount, and the third currency
Transactions ==
    {Transaction(u, a, c) : u \in UserIds, a \in Amounts, c \in Currencies}
    \cup {Transaction(PyInt(7), Float(10), Str(USD)),
          Transaction(Str("u123"), None, Str(USD)),
          Transaction(Str("u123"), Float(-5), Str(USD)),
          Transaction(Str("u456"), Float(15), Str(<<" ", "g", "b", "p">>))}

\* other rate sets an FxService is constructed with
FxServices == {ExampleFx, FxService(68001, 925, 787)}

\* Transactions that pass Validation and Authentication under USERS
MoneyTransactions ==
    {Transaction(Str("u123"), Float(a), c) :
        a \in {1, 5, 15},
        c \in {Str(USD), Str(<<"e", "u", "r", " ">>), Str(<<" ", "g", "b", "p">>)}}

\* what the file holds before the first run
InitialFiles ==
    {Missing, File("list", <<>>), File("corrupt", <<>>), File("nonlist", <<>>)}

\* ------------------------------------------------------------------- state

VARIABLES
    users_db,     \* AuthFilter.users_db
    fx,           \* the FxService that TransformationFilter and FeeFilter share
    file,         \* the file at StorageFilter.path
    tx,           \* per run: the Transaction object (None: the context has none)
    ctx,          \* per run: the context dict
    phase,        \* per run: pending, running, succeeded (run returned), failed (run raised)
    idx,          \* per run: position of the loop of Pipeline.run in filters
    err,          \* per run: the exception that reached the caller of run
    spc,          \* per run: position inside StorageFilter.process
    record,       \* per run: StorageFilter.process's local `record`
    existing,     \* per run: StorageFilter.process's local `existing`
    trace,        \* per run: the calls of process() made so far, in order
    tx_in,        \* per run: the Transaction as the caller built it
    sink_before,  \* per run: the file when the run began / when its Storage stage began
    sink_init,    \* the file before the first run
    last_writer   \* the run whose json.dump completed last (0: none)

vars == <<users_db, fx, file, tx, ctx, phase, idx, err, spc, record, existing, trace,
          tx_in, sink_before, sink_init, last_writer>>

\* no run has begun
InitRuns ==
    /\ tx = [r \in Runs |-> None]
    /\ tx_in = [r \in Runs |-> None]
    /\ ctx = [r \in Runs |-> EmptyDict]
    /\ phase = [r \in Runs |-> "pending"]
    /\ idx = [r \in Runs |-> 1]
    /\ err = [r \in Runs |-> NoError]
    /\ spc = [r \in Runs |-> "idle"]
    /\ record = [r \in Runs |-> None]
    /\ existing = [r \in Runs |-> <<>>]
    /\ trace = [r \in Runs |-> <<>>]
    /\ sink_before = [r \in Runs |-> Missing]
    /\ last_writer = 0

Init ==
    /\ users_db \in Directories
    /\ fx = ExampleFx
    /\ file \in InitialFiles
    /\ sink_init = file
    /\ InitRuns

Finished(r) == phase[r] \in {"succeeded", "failed"}

\* ------------------------------------------------------------ the caller

\* res = pipeline.run({"transaction": tx}), or run on a context without one
Call(r, t) ==
    /\ phase[r] = "pending"
    /\ tx' = [tx EXCEPT ![r] = t]
    /\ tx_in' = [tx_in EXCEPT ![r] = t]
    /\ ctx' = [ctx EXCEPT ![r] = IF t = None THEN EmptyDict
                                 ELSE SetItem(EmptyDict, "transaction", TxRef)]
    /\ phase' = [phase EXCEPT ![r] = "running"]
    /\ sink_before' = [sink_before EXCEPT ![r] = file]
    /\ UNCHANGED <<users_db, fx, file, idx, err, spc, record, existing, trace,
                   sink_init, last_writer>>

\* the example's loop: one run after the other
Start(r) ==
    /\ \A o \in Runs : o < r => Finished(o)
    /\ \A o \in Runs : o > r => phase[o] = "pending"
    /\ \E t \in Transactions \cup {None} : Call(r, t)

\* Runs started by callers that do not wait for each other. The stages before
\* Storage touch nothing but the run's own context and Transaction, so their
\* order among runs changes no state: a run is started once the runs before it
\* have reached Storage (or ended), which keeps every order of the Storage steps.
StartConcurrent(r) ==
    /\ \A o \in Runs : o < r =>
          IF phase[o] = "running"
          THEN (IF LoopDone(idx[o]) THEN TRUE ELSE filters[idx[o]] = "Storage")
          ELSE Finished(o)
    /\ \E t \in Transactions \cup {None} : Call(r, t)

\* ------------------------------------------------------------ Pipeline.run

Entry(stage, input, res) ==
    [stage |-> stage, input |-> input,
     outcome |-> IF res.raised = NoError THEN "returned" ELSE "raised",
     output |-> res.context, raised |-> res.raised]

AtStage(r, stage) ==
    /\ phase[r] = "running"
    /\ ~LoopDone(idx[r])
    /\ filters[idx[r]] = stage

\* context = f.process(context) for a stage that touches only the context and
\* the Transaction
Invoke(r, stage, res) ==
    LET step == Pipeline_step(idx[r], res)
    IN  /\ ctx' = [ctx EXCEPT ![r] = res.context]
        /\ tx' = [tx EXCEPT ![r] = res.transaction]
        /\ trace' = [trace EXCEPT ![r] = Append(@, Entry(stage, ctx[r], res))]
        /\ idx' = [idx EXCEPT ![r] = step.idx]
        /\ phase' = [phase EXCEPT ![r] = step.phase]
        /\ err' = [err EXCEPT ![r] = step.err]

Validation(r) ==
    /\ AtStage(r, "Validation")
    /\ Invoke(r, "Validation",
              ValidationFilter_process(ctx[r],
                  IF "transaction" \in DOMAIN ctx[r] THEN tx[r] ELSE None))
    /\ UNCHANGED <<users_db, fx, file, spc, record, existing, tx_in, sink_before,
                   sink_init, last_writer>>

Auth(r) ==
    /\ AtStage(r, "Auth")
    /\ Invoke(r, "Auth", AuthFilter_process(users_db, ctx[r], tx[r]))
    /\ UNCHANGED <<users_db, fx, file, spc, record, existing, tx_in, sink_before,
                   sink_init, last_writer>>

Transformation(r) ==
    /\ AtStage(r, "Transformation")
    /\ Invoke(r, "Transformation", TransformationFilter_process(fx, ctx[r], tx[r]))
    /\ UNCHANGED <<users_db, fx, file, spc, record, existing, tx_in, sink_before,
                   sink_init, last_writer>>

Fee(r) ==
    /\ AtStage(r, "Fee")
    /\ Invoke(r, "Fee", FeeFilter_process(fx, ctx[r], tx[r]))
    /\ UNCHANGED <<users_db, fx, file, spc, record, existing, tx_in, sink_before,
                   sink_init, last_writer>>

\* -------------------------------------------------- StorageFilter.process

IsPrefix(a, b) == Len(a) <= Len(b) /\ SubSeq(b, 1, Len(a)) = a

\* The process that leaves the stage with a result: the entry opened for the
\* call is closed, the loop of Pipeline.run takes its turn.
Leave(r, res) ==
    LET step == Pipeline_step(idx[r], res)
        n == Len(trace[r])
    IN  /\ ctx' = [ctx EXCEPT ![r] = res.context]
        /\ trace' = [trace EXCEPT ![r][n] = Entry("Storage", @.input, res)]
        /\ idx' = [idx EXCEPT ![r] = step.idx]
        /\ phase' = [phase EXCEPT ![r] = step.phase]
        /\ err' = [err EXCEPT ![r] = step.err]
        /\ spc' = [spc EXCEPT ![r] = "idle"]

\* lines 122-138: the record is built, the file is read if there is one, the
\* record is appended to what was read
StorageRead(r) ==
    /\ AtStage(r, "Storage")
    /\ spc[r] = "idle"
    /\ record' = [record EXCEPT ![r] = LedgerRecord(ctx[r], tx[r])]
    /\ sink_before' = [sink_before EXCEPT ![r] = file]
    /\ \E io_ok \in BOOLEAN :
         LET e == IF file.kind # "missing" /\ ~io_ok THEN ReadFailure
                  ELSE IF file.kind = "nonlist" THEN NotAList
                  ELSE NoError
         IN  IF e # NoError
             THEN /\ Invoke(r, "Storage", Raised(e, ctx[r], tx[r]))
                  /\ UNCHANGED <<spc, existing>>
             ELSE /\ existing' = [existing EXCEPT
                                    ![r] = Append(json_load(file), record'[r])]
                  /\ spc' = [spc EXCEPT ![r] = "open"]
                  /\ trace' = [trace EXCEPT ![r] = Append(@,
                        [stage |-> "Storage", input |-> ctx[r], outcome |-> "active",
                         output |-> None, raised |-> NoError])]
                  /\ UNCHANGED <<ctx, tx, idx, phase, err>>
    /\ UNCHANGED <<users_db, fx, file, tx_in, sink_init, last_writer>>

\* line 139: open(path, "w") truncates the file, or fails and leaves it alone
StorageOpen(r) ==
    /\ phase[r] = "running"
    /\ spc[r] = "open"
    /\ \E io_ok \in BOOLEAN :
         IF io_ok
         THEN /\ file' = File("empty", <<>>)
              /\ spc' = [spc EXCEPT ![r] = "dump"]
              /\ UNCHANGED <<ctx, trace, idx, phase, err>>
         ELSE /\ Leave(r, Raised(OpenFailure, ctx[r], tx[r]))
              /\ UNCHANGED file
    /\ UNCHANGED <<users_db, fx, tx, record, existing, tx_in, sink_before, sink_init,
                   last_writer>>

\* json.dump given the new record alone, not the sequence read
Flushed_record_only(f, recs) == {File("list", <<recs[Len(recs)]>>)}

\* What the file holds once `text`, written from offset 0, is flushed: the text
\* alone when the file held no more than a prefix of it; the text followed by
\* the tail of a longer text another writer left, which no longer parses. The
\* lengths of two unrelated texts are not modelled: either may be the longer.
Flushed(f, recs) ==
    IF IsPrefix(f.recs, recs) /\ f.kind \in {"missing", "empty", "list", "partial"}
    THEN {File("list", recs)}
    ELSE IF f.kind = "list" /\ IsPrefix(recs, f.recs)
    THEN {File("corrupt", <<>>)}
    ELSE {File("list", recs), File("corrupt", <<>>)}

\* lines 140-144: json.dump and the close that flushes it write the whole
\* sequence, or fail part of the way; then the context is marked
StorageDump(r) ==
    /\ phase[r] = "running"
    /\ spc[r] = "dump"
    /\ \E io_ok \in BOOLEAN :
         IF io_ok
         THEN /\ file' \in Flushed(file, existing[r])
              /\ last_writer' = r
              /\ Leave(r, Returned(Persisted(ctx[r]), tx[r]))
         ELSE /\ \E k \in 0..(Len(existing[r]) - 1) :
                    file' = File("partial", SubSeq(existing[r], 1, k))
              /\ UNCHANGED last_writer
              /\ Leave(r, Raised(WriteFailure, ctx[r], tx[r]))
    /\ UNCHANGED <<users_db, fx, tx, record, existing, tx_in, sink_before, sink_init>>

\* lines 155-156
SetStatus(r) ==
    /\ phase[r] = "running"
    /\ LoopDone(idx[r])
    /\ ctx' = [ctx EXCEPT ![r] = SetItem(@, "status", "SUCCESS")]
    /\ phase' = [phase EXCEPT ![r] = "succeeded"]
    /\ UNCHANGED <<users_db, fx, file, tx, idx, err, spc, record, existing, trace,
                   tx_in, sink_before, sink_init, last_writer>>

\* ---------------------------------------------------------- specifications

Stage(r) ==
    \/ Validation(r)
    \/ Auth(r)
    \/ Transformation(r)
    \/ Fee(r)
    \/ StorageRead(r)
    \/ StorageOpen(r)
    \/ StorageDump(r)
    \/ SetStatus(r)

\* runs one after the other, as the example makes them
Next == \E r \in Runs : Start(r) \/ Stage(r)

Spec == Init /\ [][Next]_vars

\* runs of callers that share the file and do not wait for each other
NextConcurrent == \E r \in Runs : StartConcurrent(r) \/ Stage(r)

\* they start from the example's directory and no file
InitConcurrent == Init /\ users_db = USERS /\ file = Missing

SpecConcurrent == InitConcurrent /\ [][NextConcurrent]_vars

\* runs one after the other on valid Transactions of several amounts, through a
\* pipeline whose FxService holds one of several rate sets
StartMoney(r) ==
    /\ \A o \in Runs : o < r => Finished(o)
    /\ \A o \in Runs : o > r => phase[o] = "pending"
    /\ \E t \in MoneyTransactions : Call(r, t)

NextMoney == \E r \in Runs : StartMoney(r) \/ Stage(r)

InitMoney ==
    /\ users_db = USERS
    /\ fx \in FxServices
    /\ file = Missing
    /\ sink_init = file
    /\ InitRuns

SpecMoney == InitMoney /\ [][NextMoney]_vars

\* a caller that hands the Transaction object of its last run, as that run left
\* it, to the pipeline again
StartResubmit(r) ==
    /\ \A o \in Runs : o < r => Finished(o)
    /\ \A o \in Runs : o > r => phase[o] = "pending"
    /\ IF r = 1 THEN \E t \in Transactions \cup {None} : Call(r, t)
       ELSE Call(r, tx[r - 1])

NextResubmit == \E r \in Runs : StartResubmit(r) \/ Stage(r)

SpecResubmit == Init /\ [][NextResubmit]_vars

\* ------------------------------------------------------------- properties

\* the record sequence a Read of the sink returns
Held(f) == IF f.kind = "list" THEN f.recs ELSE <<>>

Stages(r) == {trace[r][k].stage : k \in 1..Len(trace[r])}

AllStagesReturned(r) ==
    /\ Len(trace[r]) = Len(filters)
    /\ \A k \in 1..Len(trace[r]) : trace[r][k].outcome = "returned"

\* C1: the calls of a run follow the order of filters: the k-th call is to the
\* k-th filter, is made only after the call before it returned, and is given the
\* context that call returned; a run that returned has called every filter.
TheoremC1 ==
    \A r \in Runs :
        /\ \A k \in 1..Len(trace[r]) :
              /\ k <= Len(filters)
              /\ trace[r][k].stage = filters[k]
              /\ k > 1 => /\ trace[r][k - 1].outcome = "returned"
                          /\ trace[r][k].input = trace[r][k - 1].output
        /\ phase[r] = "succeeded" => Len(trace[r]) = Len(filters)

WitnessC1 ==
    \E r \in Runs : phase[r] = "succeeded" /\ AllStagesReturned(r)

\* C2: once a call raises, it is the last call of the run, the run has failed
\* with exactly the raised error, and the context has no "status" key.
TheoremC2 ==
    \A r \in Runs : \A k \in 1..Len(trace[r]) :
        trace[r][k].outcome = "raised" =>
            /\ k = Len(trace[r])
            /\ phase[r] = "failed"
            /\ err[r] = trace[r][k].raised
            /\ "status" \notin DOMAIN ctx[r]

WitnessC2 ==
    \E r \in Runs :
        /\ phase[r] = "failed"
        /\ Len(trace[r]) = 2
        /\ trace[r][2].outcome = "raised"
        /\ err[r] = NotAuthenticated

\* C3: a context holds "status" only with the value SUCCESS and only when every
\* filter has returned; a run that has ended holds it exactly when every filter
\* returned.
TheoremC3 ==
    \A r \in Runs :
        /\ "status" \in DOMAIN ctx[r] =>
              ctx[r]["status"] = "SUCCESS" /\ AllStagesReturned(r)
        /\ Finished(r) => ("status" \in DOMAIN ctx[r] <=> AllStagesReturned(r))

WitnessC3 ==
    \E r \in Runs : "status" \in DOMAIN ctx[r] /\ Len(trace[r]) = Len(filters)

\* a submitted Transaction whose amount is a number <= 0 or whose currency,
\* upper-cased and trimmed, is none of USD, EUR, GBP
Unacceptable(t) ==
    /\ t # None
    /\ \/ (t.btc_amount # None /\ t.btc_amount.v <= 0)
       \/ strip(upper(t.base_currency.v)) \notin {USD, EUR, GBP}

\* C4: a run on an unacceptable Transaction never calls Auth and ends failed in
\* its first call, Validation; and every call of Auth comes right after a
\* Validation that returned, on an acceptable Transaction.
TheoremC4 ==
    \A r \in Runs :
        /\ Unacceptable(tx_in[r]) =>
              /\ "Auth" \notin Stages(r)
              /\ Finished(r) => /\ phase[r] = "failed"
                                /\ Len(trace[r]) = 1
                                /\ trace[r][1].stage = "Validation"
                                /\ trace[r][1].outcome = "raised"
        /\ \A k \in 1..Len(trace[r]) :
              trace[r][k].stage = "Auth" =>
                  /\ k > 1
                  /\ trace[r][k - 1].stage = "Validation"
                  /\ trace[r][k - 1].outcome = "returned"
                  /\ ~Unacceptable(tx_in[r])

WitnessC4 ==
    \E r \in Runs :
        /\ Unacceptable(tx_in[r])
        /\ tx_in[r].btc_amount # None
        /\ tx_in[r].btc_amount.v > 0
        /\ phase[r] = "failed"
        /\ err[r] = UnsupportedCurrency

\* the run was given a Transaction whose user_id has no entry in the directory
Absent(r) ==
    /\ tx_in[r] # None
    /\ ~(IsStr(tx_in[r].user_id) /\ tx_in[r].user_id.v \in DOMAIN users_db)

NoMoney(r) ==
    /\ DOMAIN ctx[r] \cap {"fiat_amount", "fee", "total"} = {}
    /\ Stages(r) \cap {"Transformation", "Fee"} = {}

\* C5 as stated: every run whose user_id is absent from the directory ends with
\* NotAuthenticated, and never holds fiat_amount, fee or total.
OriginalC5 ==
    \A r \in Runs :
        Absent(r) =>
            /\ NoMoney(r)
            /\ Finished(r) => phase[r] = "failed" /\ err[r] = NotAuthenticated

\* C5, amended: a run whose user_id is absent from the directory never holds
\* fiat_amount, fee or total and never calls Transformation or Fee; it ends
\* failed, with NotAuthenticated if its Transaction passed Validation and with
\* the error Validation raised otherwise.
TheoremC5 ==
    \A r \in Runs :
        Absent(r) =>
            /\ NoMoney(r)
            /\ Finished(r) =>
                  /\ phase[r] = "failed"
                  /\ IF trace[r][1].outcome = "returned"
                     THEN Len(trace[r]) = 2 /\ err[r] = NotAuthenticated
                     ELSE Len(trace[r]) = 1 /\ err[r] = trace[r][1].raised
                                            /\ err[r].exc = "ValueError"

WitnessC5 ==
    \E r \in Runs :
        /\ Absent(r)
        /\ phase[r] = "failed"
        /\ trace[r][1].outcome = "returned"
        /\ err[r] = NotAuthenticated

\* C6: a call of Auth raises NotAuthenticated exactly when the user_id has no
\* entry in the directory, and otherwise returns a context holding the entry's
\* profile under "user".
ClaimC6 ==
    \A r \in Runs : \A k \in 1..Len(trace[r]) :
        trace[r][k].stage = "Auth" =>
            IF Absent(r)
            THEN trace[r][k].outcome = "raised" /\ trace[r][k].raised = NotAuthenticated
            ELSE /\ trace[r][k].outcome = "returned"
                 /\ trace[r][k].output["user"] = users_db[tx_in[r].user_id.v]

Succeeded == {r \in Runs : phase[r] = "succeeded"}

\* C7: when the file was missing or held [] at first and every run made so far
\* has returned, the file holds exactly one record per run, the k-th being the
\* record the k-th run built.
TheoremC7 ==
    (/\ sink_init.kind \in {"missing", "list"}
     /\ \A r \in Runs : phase[r] \in {"pending", "succeeded"})
    => LET N == Cardinality(Succeeded)
       IN  /\ \A k \in 1..N : phase[k] = "succeeded"
           /\ Len(Held(file)) = N
           /\ \A k \in 1..N : Held(file)[k] = record[k]
           /\ N > 0 => file.kind = "list"

WitnessC7 ==
    /\ sink_init.kind \in {"missing", "list"}
    /\ \A r \in Runs : phase[r] = "succeeded"
    /\ Len(file.recs) = NumRuns
    /\ file.recs[NumRuns] = record[NumRuns]

\* C8: when a run has failed (and no later run has begun), a Read of the sink
\* returns the sequence it returned when the run began.
ClaimC8 ==
    \A r \in Runs :
        (phase[r] = "failed" /\ \A o \in Runs : o > r => phase[o] = "pending")
        => Held(file) = Held(sink_before[r])

\* C9: from the call of Storage on (and until a later run begins), a Read of the
\* sink returns the sequence it returned before the call, or that sequence with
\* the run's record appended.
ClaimC9 ==
    \A r \in Runs :
        (/\ Len(trace[r]) = Len(filters)
         /\ \A o \in Runs : o > r => phase[o] = "pending")
        => \/ Held(file) = Held(sink_before[r])
           \/ Held(file) = Append(Held(sink_before[r]), record[r])

\* C10: a completed write leaves in the file what its writer read followed by
\* the writer's record, whatever other runs wrote in between: the last writer
\* wins.
TheoremC10 ==
    (last_writer # 0 /\ file.kind = "list")
    => file.recs = Append(Held(sink_before[last_writer]), record[last_writer])

\* two runs have returned with status SUCCESS and persisted = True, and the file
\* holds the record of one of them only
WitnessC10 ==
    \E a \in Runs : \E b \in Runs \ {a} :
        /\ phase[a] = "succeeded" /\ phase[b] = "succeeded"
        /\ ctx[a]["status"] = "SUCCESS" /\ ctx[b]["status"] = "SUCCESS"
        /\ ctx[a]["persisted"] /\ ctx[b]["persisted"]
        /\ record[a] # record[b]
        /\ file = File("list", <<record[b]>>)

\* C11: a call of Storage that finds no file, or a file whose content is no
\* sequence of records, raises nothing but an I/O error, and when it returns
\* the file holds exactly the one record the run built.
ClaimC11 ==
    \A r \in Runs :
        (/\ Len(trace[r]) = Len(filters)
         /\ sink_before[r].kind # "list"
         /\ \A o \in Runs : o > r => phase[o] = "pending")
        => LET e == trace[r][Len(filters)]
           IN  /\ e.outcome = "raised" => e.raised.exc = "OSError"
               /\ e.outcome = "returned" => file = File("list", <<record[r]>>)

\* C12: the first call of a run, Validation, raises the error of the first rule
\* its Transaction breaks - no Transaction, then a user_id that is empty or no
\* string, then an amount that is missing or not positive, then a currency that
\* is none of USD, EUR, GBP once upper-cased and trimmed - and returns, with
\* validated_at added to the context, when it breaks none.
TheoremC12 ==
    \A r \in Runs :
        Len(trace[r]) >= 1 =>
            LET e == trace[r][1]
                t == tx_in[r]
            IN  /\ e.stage = "Validation"
                /\ IF t = None THEN e.raised = MissingTransaction
                   ELSE IF t.user_id.py # "str" \/ t.user_id.v = ""
                   THEN e.raised = InvalidUser
                   ELSE IF t.btc_amount = None \/ t.btc_amount.v <= 0
                   THEN e.raised = InvalidAmount
                   ELSE IF strip(upper(t.base_currency.v)) \notin {USD, EUR, GBP}
                   THEN e.raised = UnsupportedCurrency
                   ELSE /\ e.outcome = "returned"
                        /\ DOMAIN e.output = DOMAIN e.input \cup {"validated_at"}

\* a Transaction that breaks the user_id rule and both later rules
WitnessC12 ==
    \E r \in Runs :
        /\ tx_in[r] # None
        /\ tx_in[r].user_id = Str("")
        /\ tx_in[r].btc_amount = Float(0)
        /\ strip(upper(tx_in[r].base_currency.v)) \notin {USD, EUR, GBP}
        /\ err[r] = InvalidUser


\* C13: in every step, every key the context of a run holds is still in it
\* afterwards, with the value it had.
TheoremC13 ==
    [][\A r \in Runs : \A k \in DOMAIN ctx[r] :
          k \in DOMAIN ctx'[r] /\ ctx'[r][k] = ctx[r][k]]_vars

WitnessC13 ==
    \E r \in Runs :
        /\ phase[r] = "succeeded"
        /\ {"transaction", "validated_at", "user", "fiat_amount", "fx_used", "fee",
            "total", "persisted", "storage_path", "status"} \subseteq DOMAIN ctx[r]

\* C14: once a run has begun, no step changes user_id or btc_amount of its
\* Transaction (or makes a Transaction of None), and base_currency changes only
\* in the call of Validation, the first of the run, to its upper-cased and
\* trimmed form.
TheoremC14 ==
    [][\A r \in Runs : phase[r] # "pending" =>
          IF tx[r] = None THEN tx'[r] = None
          ELSE /\ tx'[r] # None
               /\ tx'[r].user_id = tx[r].user_id
               /\ tx'[r].btc_amount = tx[r].btc_amount
               /\ tx'[r].base_currency # tx[r].base_currency
                  => /\ Len(trace[r]) = 0
                     /\ Len(trace'[r]) = 1
                     /\ trace'[r][1].stage = "Validation"
                     /\ tx'[r].base_currency = Normalized(tx[r].base_currency)]_vars

WitnessC14 ==
    \E r \in Runs :
        /\ phase[r] = "succeeded"
        /\ tx[r].base_currency # tx_in[r].base_currency
        /\ tx[r].user_id = tx_in[r].user_id
        /\ tx[r].btc_amount = tx_in[r].btc_amount


\* the multiplier of a currency in the FxService of the pipeline
RateOf(c) ==
    IF c = USD THEN RateUnit ELSE IF c = EUR THEN fx.usd_to_eur ELSE fx.usd_to_gbp

\* C15: in every run that has a fee, the fee is 5.00 times fx_used.applied,
\* rounded to cents, and fx_used.applied is the rate of the run's currency:
\* 1.0 for USD, usd_to_eur for EUR, usd_to_gbp for GBP.
TheoremC15 ==
    \A r \in Runs : "fee" \in DOMAIN ctx[r] =>
        LET applied == ctx[r]["fx_used"].applied
        IN  /\ applied = RateOf(tx[r].base_currency.v)
            /\ ctx[r]["fee"] = RoundHalfEven(FIXED_FEE_USD * applied, RateUnit)

\* a successful run in GBP at a rate that makes 5.00 * rate end in half a cent
WitnessC15 ==
    \E r \in Runs :
        /\ phase[r] = "succeeded"
        /\ tx[r].base_currency.v = GBP
        /\ ctx[r]["fx_used"].applied = fx.usd_to_gbp
        /\ (FIXED_FEE_USD * fx.usd_to_gbp) % RateUnit # 0
        /\ ctx[r]["fee"] = RoundHalfEven(FIXED_FEE_USD * fx.usd_to_gbp, RateUnit)

\* C16: a successful run ends with total = fiat_amount + fee, the three of them
\* whole numbers of cents.
TheoremC16 ==
    \A r \in Runs : phase[r] = "succeeded" =>
        /\ {ctx[r]["fiat_amount"], ctx[r]["fee"], ctx[r]["total"]} \subseteq Nat
        /\ ctx[r]["total"] = ctx[r]["fiat_amount"] + ctx[r]["fee"]

\* a successful run whose fee was rounded, on a fiat_amount that was rounded too
WitnessC16 ==
    \E r \in Runs :
        /\ phase[r] = "succeeded"
        /\ (FIXED_FEE_USD * ctx[r]["fx_used"].applied) % RateUnit # 0
        /\ (tx[r].btc_amount.v * fx.btc_usd * ctx[r]["fx_used"].applied)
               % ((BtcUnit * RateUnit) \div 100) # 0
        /\ ctx[r]["total"] = ctx[r]["fiat_amount"] + ctx[r]["fee"]


\* C17: when persisted is in the context of a run, it is true, the record the
\* run built carries the Transaction as Validation normalized it and the user,
\* fiat_amount, fee, total and fx_used of the context, and, until a later run
\* begins, that record is the last of the sink.
TheoremC17 ==
    \A r \in Runs : "persisted" \in DOMAIN ctx[r] =>
        /\ ctx[r]["persisted"] = TRUE
        /\ record[r].transaction = asdict(tx[r])
        /\ record[r].transaction.base_currency = Normalized(tx_in[r].base_currency)
        /\ record[r].user = ctx[r]["user"]
        /\ record[r].fiat_amount = ctx[r]["fiat_amount"]
        /\ record[r].fee = ctx[r]["fee"]
        /\ record[r].total = ctx[r]["total"]
        /\ record[r].fx_used = ctx[r]["fx_used"]
        /\ (\A o \in Runs : o > r => phase[o] = "pending")
           => /\ file.kind = "list"
              /\ file.recs # <<>>
              /\ file.recs[Len(file.recs)] = record[r]

\* the second of two successful runs, given a code that Validation rewrote
WitnessC17 ==
    \E r \in Runs :
        /\ phase[r] = "succeeded"
        /\ ctx[r]["persisted"] = TRUE
        /\ tx_in[r].base_currency # tx[r].base_currency
        /\ record[r].transaction.base_currency = tx[r].base_currency
        /\ Len(file.recs) > 1
        /\ file.recs[Len(file.recs)] = record[r]


\* C18: when the Transaction of a run whose Validation returned is given to the
\* pipeline again, Validation returns again and base_currency is what the first
\* Validation made it.
TheoremC18 ==
    \A r \in Runs :
        (/\ r > 1
         /\ Len(trace[r]) >= 1
         /\ Len(trace[r - 1]) >= 1
         /\ trace[r - 1][1].outcome = "returned")
        => /\ trace[r][1].stage = "Validation"
           /\ trace[r][1].outcome = "returned"
           /\ tx[r].base_currency = tx_in[r].base_currency
           /\ tx[r].base_currency = tx[r - 1].base_currency

\* a code the first Validation rewrote, validated a second time
WitnessC18 ==
    \E r \in Runs :
        /\ r > 1
        /\ Len(trace[r]) >= 1
        /\ trace[r][1].outcome = "returned"
        /\ tx_in[r - 1].base_currency # tx[r - 1].base_currency
        /\ tx_in[r] = tx[r - 1]
        /\ tx[r].base_currency.v \in SUPPORTED


\* C19: when a stage has raised, the context is what the stage was called
\* with, and the Transaction is what it was when the stage was called: for
\* Validation, the first call of a run, what the caller supplied.
ClaimC19 ==
    \A r \in Runs : phase[r] = "failed" =>
        LET e == trace[r][Len(trace[r])]
        IN  /\ e.outcome = "raised"
            /\ e.output = e.input
            /\ ctx[r] = e.input
            /\ e.stage = "Validation" => tx[r] = tx_in[r]


\* C20: no call of Transformation or Fee raises: a run whose Validation and
\* Auth returned gets both to return, no run ends with the FxService's or the
\* Fee stage's unsupported-currency error, and a failed run failed in
\* Validation, Auth or Storage.
TheoremC20 ==
    \A r \in Runs :
        /\ \A k \in 1..Len(trace[r]) :
              trace[r][k].stage \in {"Transformation", "Fee"}
              => trace[r][k].outcome = "returned"
        /\ err[r] \notin {FxUnsupportedCurrency, FeeUnsupportedCurrency}
        /\ phase[r] = "failed"
           => trace[r][Len(trace[r])].stage \in {"Validation", "Auth", "Storage"}
        /\ (Len(trace[r]) >= 2 /\ trace[r][2].outcome = "returned")
           => tx[r].base_currency.v \in {USD, EUR, GBP}

\* a run given a code that had to be normalized, past Transformation and Fee
WitnessC20 ==
    \E r \in Runs :
        /\ Len(trace[r]) >= 4
        /\ trace[r][3].stage = "Transformation"
        /\ trace[r][3].outcome = "returned"
        /\ trace[r][4].stage = "Fee"
        /\ trace[r][4].outcome = "returned"
        /\ tx_in[r].base_currency.v \notin {USD, EUR, GBP}

====
